---- MODULE Spec2Model ----
(***************************************************************************)
(* Model of devrob-go/sliceutil: the deep structural comparison            *)
(* CompareStructs and its memoization cache, in the two packages of the    *)
(* repository:                                                             *)
(*   - the root package (compare.go): CompareStructs reads and writes the  *)
(*     cache under a sync.RWMutex, the key is derived from the types;      *)
(*   - pkg/sliceutil: CompareStructs is a cache-free recursion, the cache  *)
(*     is only touched by ClearStructCache and GetStructCacheStats.        *)
(***************************************************************************)
EXTENDS Integers, Sequences, FiniteSets, TLC

\* Primitive payloads range over 1..MaxVal.
MaxVal == 2

(***************************************************************************)
(* Go values.  Every value is a record                                     *)
(*   k : the reflect.Kind ("nil" for the untyped nil interface),           *)
(*   t : reflect.TypeOf(v).String(),                                       *)
(*   n : the payload of a primitive, the address of a pointer (0 = nil     *)
(*       pointer), 0/1 for a nil/non-nil slice,                            *)
(*   f : the fields of a struct, the elements of a slice, the referent of  *)
(*       a non-nil pointer.                                                *)
(***************************************************************************)
Val(k, t, n, f) == [k |-> k, t |-> t, n |-> n, f |-> f]

NilV == Val("nil", "nil", 0, <<>>)

IntV(n) == Val("int", "int", n, <<>>)

\* the string holding the decimal text of n
StrV(n) == Val("string", "string", n, <<>>)

BoolV(n) == Val("bool", "bool", n, <<>>)

StructV(t, fs) == Val("struct", t, 0, fs)

NilPtr(t) == Val("ptr", "*" \o t, 0, <<>>)

PtrV(addr, ref) == Val("ptr", "*" \o ref.t, addr, <<ref>>)

NilSlice(et) == Val("slice", "[]" \o et, 0, <<>>)

SliceV(et, elems) == Val("slice", "[]" \o et, 1, elems)

(***************************************************************************)
(* The struct types of the model:                                          *)
(*   type Empty   struct{}                                                 *)
(*   type Address struct{ City int; zip int }                              *)
(*   type Person  struct{ Age int; Addr Address }                          *)
(*   type Listed  struct{ Items []int }                                    *)
(*   type Tagged  struct{ Tags []int; Flags []bool }                       *)
(*   type Group   struct{ Members []Address }                              *)
(*   type Holder  struct{ Ref *Address }                                   *)
(*   type Route   struct{ From Address; To Address }                       *)
(***************************************************************************)
EmptyV == StructV("main.Empty", <<>>)

AddressV(c, z) == StructV("main.Address", <<IntV(c), IntV(z)>>)

PersonV(age, addr) == StructV("main.Person", <<IntV(age), addr>>)

ListedV(items) == StructV("main.Listed", <<items>>)

TaggedV(tags, flags) == StructV("main.Tagged", <<tags, flags>>)

GroupV(members) == StructV("main.Group", <<members>>)

HolderV(ref) == StructV("main.Holder", <<ref>>)

RouteV(from, to) == StructV("main.Route", <<from, to>>)

\* reflect.Value.CanInterface of field i of a struct of type t: the field is exported
CanInterface(t, i) ==
    CASE t = "main.Address" -> i = 1
      [] OTHER -> TRUE

TypeOf(v) == v.t

Kind(v) == v.k

(***************************************************************************)
(* The values the comparisons are applied to.                              *)
(***************************************************************************)
\* Slices hold at most MaxLen elements.
MaxLen == 2

SeqsUpTo(S, n) == UNION {[1..m -> S] : m \in 0..n}

Addresses == {AddressV(c, z) : c \in 1..MaxVal, z \in 1..2}

Persons == {PersonV(age, addr) : age \in 1..2, addr \in Addresses}

IntSlices ==
    {NilSlice("int")} \cup {SliceV("int", s) : s \in SeqsUpTo({IntV(n) : n \in 1..MaxVal}, MaxLen)}

Listeds == {ListedV(items) : items \in IntSlices}

Taggeds ==
    {TaggedV(tags, flags) : tags \in {NilSlice("int"), SliceV("int", <<IntV(1)>>)},
                            flags \in {NilSlice("bool"), SliceV("bool", <<BoolV(1)>>)}}

Groups ==
    {GroupV(SliceV("main.Address", s)) :
        s \in SeqsUpTo({AddressV(1, 1), AddressV(1, 2), AddressV(2, 1)}, MaxLen)}

Routes == {RouteV(from, to) : from \in {AddressV(c, 1) : c \in 1..MaxVal},
                              to \in {AddressV(c, 1) : c \in 1..MaxVal}}

\* The heap: the cell at address i holds Heap[i]; cells 1 and 2, and 5 and 6,
\* hold equal contents at distinct addresses.
Heap ==
    << PersonV(1, AddressV(1, 1)), PersonV(1, AddressV(1, 1)), PersonV(2, AddressV(1, 1)),
       EmptyV, AddressV(1, 1), AddressV(1, 1), AddressV(2, 1), AddressV(1, 2) >>

Pointers ==
    {PtrV(i, Heap[i]) : i \in 1..Len(Heap)}
        \cup {NilPtr("main.Person"), NilPtr("main.Empty"), NilPtr("main.Address")}

Holders == {HolderV(p) : p \in {q \in Pointers : q.t = "*main.Address"}}

Primitives == {IntV(n) : n \in 1..MaxVal} \cup {StrV(1), BoolV(1)}

Values ==
    {NilV, EmptyV} \cup Primitives \cup Addresses \cup Persons \cup Listeds \cup Taggeds
        \cup Groups \cup Pointers \cup Holders \cup Routes

(***************************************************************************)
(* pkg/sliceutil: the cache-free comparison.                               *)
(***************************************************************************)
RECURSIVE DeepEqual(_, _)
\* reflect.DeepEqual on two values
DeepEqual(x, y) ==
    IF TypeOf(x) # TypeOf(y) THEN FALSE
    ELSE CASE Kind(x) = "struct" ->
                \A i \in 1..Len(x.f) : DeepEqual(x.f[i], y.f[i])
           [] Kind(x) = "slice" ->
                /\ x.n = y.n
                /\ Len(x.f) = Len(y.f)
                /\ \A i \in 1..Len(x.f) : DeepEqual(x.f[i], y.f[i])
           [] Kind(x) = "ptr" ->
                \/ x.n = y.n
                \/ x.n # 0 /\ y.n # 0 /\ DeepEqual(x.f[1], y.f[1])
           [] OTHER -> x.n = y.n

\* compareSlicesReflect: the slice fields a and b of two structs
compareSlicesReflect(a, b) ==
    /\ Len(a.f) = Len(b.f)
    /\ \A i \in 1..Len(a.f) : DeepEqual(a.f[i], b.f[i])

\* the operand after the pointer dereference of CompareStructs
Deref(v) == IF Kind(v) = "ptr" /\ v.n # 0 THEN v.f[1] ELSE v

RECURSIVE CompareStructs(_, _)
\* pkg/sliceutil CompareStructs(a, b)
CompareStructs(a, b) ==
    IF a = NilV /\ b = NilV THEN TRUE
    ELSE IF a = NilV \/ b = NilV THEN FALSE
    ELSE IF TypeOf(a) # TypeOf(b) THEN FALSE
    ELSE IF Kind(a) = "ptr" /\ (a.n = 0 \/ b.n = 0) THEN a.n = 0 /\ b.n = 0
    ELSE LET valA == Deref(a)
             valB == Deref(b)
         IN  IF Kind(valA) # "struct" \/ Kind(valB) # "struct" THEN DeepEqual(a, b)
             ELSE \A i \in 1..Len(valA.f) :
                     \/ ~CanInterface(valA.t, i)
                     \/ IF Kind(valA.f[i]) = "slice"
                        THEN compareSlicesReflect(valA.f[i], valB.f[i])
                        ELSE CompareStructs(valA.f[i], valB.f[i])

(***************************************************************************)
(* Root package (compare.go): the memoizing comparison.                    *)
(***************************************************************************)
\* root CompareSlices (on the slices held by two fields): length, then elements in order
RootCompareSlices(a, b) ==
    /\ Len(a.f) = Len(b.f)
    /\ \A i \in 1..Len(a.f) : a.f[i] = b.f[i]

\* fieldA.Type().Elem().Kind() of a slice-typed field
ElemKind(v) ==
    CASE v.t = "[]int" -> "int"
      [] v.t = "[]string" -> "string"
      [] v.t = "[]bool" -> "bool"
      [] v.t = "[]float64" -> "float64"
      [] v.t = "main.IDs" -> "int"
      [] OTHER -> "struct"

\* One iteration of the field loop of the root CompareStructs on fields fa and
\* fb: "skip" (unexported), "recurse" (nested struct: a recursive call),
\* "equal" or "differ".
FieldOutcome(fa, fb, exported) ==
    IF ~exported THEN "skip"
    ELSE IF Kind(fa) = "struct" THEN "recurse"
    ELSE IF Kind(fa) = "slice" /\ Kind(fb) = "slice"
         THEN IF ElemKind(fa) \in {"int", "string"}
              THEN IF RootCompareSlices(fa, fb) THEN "equal" ELSE "differ"
              ELSE "differ"
    ELSE IF fa # fb THEN "differ" ELSE "equal"

\* the zero reflect.Value, which Elem() gives for a nil pointer
Invalid == Val("invalid", "", 0, <<>>)

\* valA / valB of the root CompareStructs: Elem() of a pointer, no nil check
RootVal(v) == IF Kind(v) = "ptr" THEN (IF v.n = 0 THEN Invalid ELSE v.f[1]) ELSE v

RECURSIVE Scan(_, _, _)
\* The field loop from index i up to its next cache access: it panics
\* (NumField or Field on a value that is no struct), returns val (on its way
\* to cacheComparisonResult), or calls CompareStructs on the fields at index i.
Scan(valA, valB, i) ==
    IF Kind(valA) # "struct" THEN [kind |-> "panic", val |-> FALSE, i |-> i]
    ELSE IF i > Len(valA.f) THEN [kind |-> "return", val |-> TRUE, i |-> i]
    ELSE IF Kind(valB) # "struct" THEN [kind |-> "panic", val |-> FALSE, i |-> i]
    ELSE LET o == FieldOutcome(valA.f[i], valB.f[i], CanInterface(valA.t, i))
         IN  CASE o = "differ" -> [kind |-> "return", val |-> FALSE, i |-> i]
               [] o = "recurse" -> [kind |-> "call", val |-> FALSE, i |-> i]
               [] OTHER -> Scan(valA, valB, i + 1)

\* root generateCacheKey
generateCacheKey(a, b) == TypeOf(a) \o TypeOf(b)

\* EntryCheck without the comparison of the two types
EntryCheckNoType(a, b) ==
    IF a = NilV \/ b = NilV THEN (IF a = b THEN "true" ELSE "false")
    ELSE "go"

\* EntryCheck where a nil operand makes the call return true
EntryCheckNilTrue(a, b) ==
    IF a = NilV \/ b = NilV THEN "true"
    ELSE IF TypeOf(a) # TypeOf(b) THEN "false"
    ELSE "go"

\* The checks of CompareStructs that precede the cache: "go" when the call
\* goes on to the cache lookup, else the value returned at once.
EntryCheck(a, b) ==
    IF a = NilV \/ b = NilV THEN (IF a = b THEN "true" ELSE "false")
    ELSE IF TypeOf(a) # TypeOf(b) THEN "false"
    ELSE "go"

\* structCache.cache[key] = result
CachePut(cache, key, result) ==
    [k \in DOMAIN cache \cup {key} |-> IF k = key THEN result ELSE cache[k]]

\* make(map[string]bool)
EmptyCache == [k \in {} |-> FALSE]

RECURSIVE Structural(_, _), ScanNoCache(_, _, _)
\* The root CompareStructs with its cache accesses left out: what the
\* comparison of a and b computes on its own.
Structural(a, b) ==
    LET e == EntryCheck(a, b)
    IN  IF e # "go" THEN [panic |-> FALSE, val |-> (e = "true")]
        ELSE ScanNoCache(RootVal(a), RootVal(b), 1)

\* the field loop of Structural from index i
ScanNoCache(valA, valB, i) ==
    LET s == Scan(valA, valB, i)
    IN  CASE s.kind = "panic" -> [panic |-> TRUE, val |-> FALSE]
          [] s.kind = "return" -> [panic |-> FALSE, val |-> s.val]
          [] s.kind = "call" ->
               LET r == Structural(valA.f[s.i], valB.f[s.i])
               IN  IF r.panic \/ ~r.val THEN r ELSE ScanNoCache(valA, valB, s.i + 1)

\* fmt.Sprintf(":%p", v) of a pointer v
FormatPointer(v) == ":0x" \o ToString(v.n)

\* pkg/sliceutil generateCacheKey
PkgGenerateCacheKey(a, b) ==
    LET keyA == TypeOf(a) \o (IF Kind(a) = "ptr" THEN FormatPointer(a) ELSE "")
        keyB == TypeOf(b) \o (IF Kind(b) = "ptr" THEN FormatPointer(b) ELSE "")
    IN  keyA \o ":" \o keyB

(***************************************************************************)
(* State.                                                                  *)
(***************************************************************************)
VARIABLES
    rootCache,   \* root package: structCache.cache
    rootLock,    \* root package: the RWMutex of structCache
    pkgCache,    \* pkg/sliceutil: structCache.cache
    pkgLock,     \* pkg/sliceutil: the RWMutex of structCache
    pc,          \* per goroutine: where it stands in its current call
    stack,       \* per goroutine: the frames of its nested CompareStructs calls
    res,         \* per goroutine: the result on its way to cacheComparisonResult
    arg,         \* per goroutine: the operands of its top-level call
    ret,         \* per goroutine: the boolean its last call returned
    stats,       \* per goroutine: the map its last GetStructCacheStats returned
    in,          \* the operands of the comparison under test
    out,         \* its results
    util         \* the last call of a slice function: its name, its arguments
                 \* before and after it, its result and the storage of the result

vars == <<rootCache, rootLock, pkgCache, pkgLock, pc, stack, res, arg, ret, stats, in, out, util>>

Goroutines == {"g1", "g2"}

\* an unlocked sync.RWMutex
Unlocked == [readers |-> {}, writer |-> "none"]

NoStats == [cache_size |-> -1, cache_keys |-> {}]

\* a Go bool as a value
Bool(b) == BoolV(IF b THEN 1 ELSE 0)

\* What a call of a slice function came to: it panicked, or it returned the
\* value val and, where the function has an error result, the error err.
Outcome(panic, val, err) == [panic |-> panic, val |-> val, err |-> err]

\* a call that returned val (and no error)
Returned(val) == Outcome(FALSE, val, "nil")

\* a call that panicked
Panicked == Outcome(TRUE, NilV, "nil")

\* no slice function was called yet
NoCall ==
    [fn |-> "none", pkg |-> "none", args |-> <<>>, spare |-> 0, res |-> Returned(NilV),
     after |-> <<>>, shared |-> FALSE]

\* a goroutine between two calls
AtRest(g) == pc[g] \in {"idle", "done", "panic", "cleared", "reported"}

\* The operands of the concurrent runs.
P11 == PersonV(1, AddressV(1, 1))

P12 == PersonV(1, AddressV(2, 1))

R11 == RouteV(AddressV(1, 1), AddressV(1, 1))

R12 == RouteV(AddressV(1, 1), AddressV(2, 1))

\* The calls of the concurrent runs: the operand pairs <<a, b>>.
RootCalls ==
    { <<NilV, NilV>>, <<NilV, P11>>, <<P11, NilV>>,
      <<IntV(1), P11>>, <<IntV(1), IntV(1)>>,
      <<P11, P11>>, <<P11, P12>>, <<P12, P11>>,
      <<PtrV(1, P11), P11>>, <<PtrV(1, P11), PtrV(2, P11)>>,
      <<PtrV(4, EmptyV), NilPtr("main.Empty")>>, <<NilPtr("main.Empty"), PtrV(4, EmptyV)>>,
      <<R11, R12>> }

InitCommon ==
    /\ rootCache = EmptyCache
    /\ rootLock = Unlocked
    /\ pkgCache = EmptyCache
    /\ pkgLock = Unlocked
    /\ pc = [g \in Goroutines |-> "idle"]
    /\ stack = [g \in Goroutines |-> <<>>]
    /\ res = [g \in Goroutines |-> FALSE]
    /\ arg = [g \in Goroutines |-> <<NilV, NilV>>]
    /\ ret = [g \in Goroutines |-> FALSE]
    /\ stats = [g \in Goroutines |-> NoStats]
    /\ out = [done |-> FALSE, val |-> FALSE]
    /\ util = NoCall

Init ==
    /\ InitCommon
    /\ in = <<NilV, NilV>>

(***************************************************************************)
(* Root package: CompareStructs, one action per step between two accesses  *)
(* of the lock.                                                            *)
(***************************************************************************)
Top(stk) == stk[Len(stk)]

Pop(stk) == SubSeq(stk, 1, Len(stk) - 1)

\* The state of goroutine g after the call of its top frame returned r: the
\* top-level call is done, or the caller's field loop goes on (r) or is on
\* its way to cache false (~r).
Return(g, r) ==
    LET rest == Pop(stack[g])
    IN  IF rest = <<>>
        THEN /\ pc' = [pc EXCEPT ![g] = "done"]
             /\ ret' = [ret EXCEPT ![g] = r]
             /\ stack' = [stack EXCEPT ![g] = <<>>]
             /\ res' = [res EXCEPT ![g] = FALSE]
        ELSE /\ ret' = ret
             /\ IF r
                THEN /\ pc' = [pc EXCEPT ![g] = "fields"]
                     /\ stack' = [stack EXCEPT ![g] =
                                    [rest EXCEPT ![Len(rest)].i = @ + 1]]
                     /\ res' = res
                ELSE /\ pc' = [pc EXCEPT ![g] = "wlock"]
                     /\ stack' = [stack EXCEPT ![g] = rest]
                     /\ res' = [res EXCEPT ![g] = FALSE]

\* RootCall that stores the result of the nil and type checks in the cache
RootCallCacheChecks(g, a, b) ==
    /\ AtRest(g)
    /\ arg' = [arg EXCEPT ![g] = <<a, b>>]
    /\ LET e == EntryCheck(a, b)
       IN  IF e = "go"
           THEN /\ pc' = [pc EXCEPT ![g] = "rlock"]
                /\ stack' = [stack EXCEPT ![g] = <<[a |-> a, b |-> b, i |-> 1]>>]
                /\ ret' = [ret EXCEPT ![g] = FALSE]
                /\ rootCache' = rootCache
           ELSE /\ pc' = [pc EXCEPT ![g] = "done"]
                /\ stack' = [stack EXCEPT ![g] = <<>>]
                /\ ret' = [ret EXCEPT ![g] = (e = "true")]
                /\ rootCache' = CachePut(rootCache, generateCacheKey(a, b), e = "true")
    /\ UNCHANGED <<rootLock, pkgCache, pkgLock, res, stats, in, out, util>>

\* CompareStructs(a, b) is called by goroutine g: the nil and type checks
RootCall(g, a, b) ==
    /\ AtRest(g)
    /\ arg' = [arg EXCEPT ![g] = <<a, b>>]
    /\ LET e == EntryCheck(a, b)
       IN  IF e = "go"
           THEN /\ pc' = [pc EXCEPT ![g] = "rlock"]
                /\ stack' = [stack EXCEPT ![g] = <<[a |-> a, b |-> b, i |-> 1]>>]
                /\ ret' = [ret EXCEPT ![g] = FALSE]
           ELSE /\ pc' = [pc EXCEPT ![g] = "done"]
                /\ stack' = [stack EXCEPT ![g] = <<>>]
                /\ ret' = [ret EXCEPT ![g] = (e = "true")]
    /\ UNCHANGED <<rootCache, rootLock, pkgCache, pkgLock, res, stats, in, out, util>>

\* structCache.RLock()
RootRLock(g) ==
    /\ pc[g] = "rlock"
    /\ rootLock.writer = "none"
    /\ rootLock' = [rootLock EXCEPT !.readers = @ \cup {g}]
    /\ pc' = [pc EXCEPT ![g] = "read"]
    /\ UNCHANGED <<rootCache, pkgCache, pkgLock, stack, res, arg, ret, stats, in, out, util>>

\* RootRead that keeps the read lock when the key is not in the cache
RootReadKeepLock(g) ==
    /\ pc[g] = "read"
    /\ LET f == Top(stack[g])
           key == generateCacheKey(f.a, f.b)
       IN  IF key \in DOMAIN rootCache
           THEN /\ Return(g, rootCache[key])
                /\ rootLock' = [rootLock EXCEPT !.readers = @ \ {g}]
           ELSE /\ pc' = [pc EXCEPT ![g] = "fields"]
                /\ UNCHANGED <<rootLock, stack, res, ret>>
    /\ UNCHANGED <<rootCache, pkgCache, pkgLock, arg, stats, in, out, util>>

\* the lookup under the read lock, and RUnlock: a hit returns the cached result
RootRead(g) ==
    /\ pc[g] = "read"
    /\ rootLock' = [rootLock EXCEPT !.readers = @ \ {g}]
    /\ LET f == Top(stack[g])
           key == generateCacheKey(f.a, f.b)
       IN  IF key \in DOMAIN rootCache
           THEN Return(g, rootCache[key])
           ELSE /\ pc' = [pc EXCEPT ![g] = "fields"]
                /\ UNCHANGED <<stack, res, ret>>
    /\ UNCHANGED <<rootCache, pkgCache, pkgLock, arg, stats, in, out, util>>

\* the field loop, up to the next access of the cache
RootFields(g) ==
    /\ pc[g] = "fields"
    /\ LET f == Top(stack[g])
           valA == RootVal(f.a)
           valB == RootVal(f.b)
           s == Scan(valA, valB, f.i)
       IN  CASE s.kind = "panic" ->
                  /\ pc' = [pc EXCEPT ![g] = "panic"]
                  /\ stack' = [stack EXCEPT ![g] = <<>>]
                  /\ res' = res
             [] s.kind = "return" ->
                  /\ pc' = [pc EXCEPT ![g] = "wlock"]
                  /\ res' = [res EXCEPT ![g] = s.val]
                  /\ stack' = stack
             [] s.kind = "call" ->
                  LET fa == valA.f[s.i]
                      fb == valB.f[s.i]
                      e == EntryCheck(fa, fb)
                      here == [stack[g] EXCEPT ![Len(stack[g])].i = s.i]
                  IN  IF e = "go"
                      THEN /\ pc' = [pc EXCEPT ![g] = "rlock"]
                           /\ stack' = [stack EXCEPT ![g] =
                                          Append(here, [a |-> fa, b |-> fb, i |-> 1])]
                           /\ res' = res
                      ELSE IF e = "true"
                      THEN /\ pc' = pc
                           /\ stack' = [stack EXCEPT ![g] =
                                          [here EXCEPT ![Len(here)].i = @ + 1]]
                           /\ res' = res
                      ELSE /\ pc' = [pc EXCEPT ![g] = "wlock"]
                           /\ stack' = [stack EXCEPT ![g] = here]
                           /\ res' = [res EXCEPT ![g] = FALSE]
    /\ UNCHANGED <<rootCache, rootLock, pkgCache, pkgLock, arg, ret, stats, in, out, util>>

\* RootWLock that does not wait for the readers to leave
RootWLockNoWait(g) ==
    /\ pc[g] = "wlock"
    /\ rootLock.writer = "none"
    /\ rootLock' = [rootLock EXCEPT !.writer = g]
    /\ pc' = [pc EXCEPT ![g] = "write"]
    /\ UNCHANGED <<rootCache, pkgCache, pkgLock, stack, res, arg, ret, stats, in, out, util>>

\* cacheComparisonResult: structCache.Lock()
RootWLock(g) ==
    /\ pc[g] = "wlock"
    /\ rootLock.writer = "none"
    /\ rootLock.readers = {}
    /\ rootLock' = [rootLock EXCEPT !.writer = g]
    /\ pc' = [pc EXCEPT ![g] = "write"]
    /\ UNCHANGED <<rootCache, pkgCache, pkgLock, stack, res, arg, ret, stats, in, out, util>>

\* cacheComparisonResult: the insert, the deferred Unlock, and the return of the call
RootWrite(g) ==
    /\ pc[g] = "write"
    /\ LET f == Top(stack[g])
       IN  rootCache' = CachePut(rootCache, generateCacheKey(f.a, f.b), res[g])
    /\ rootLock' = [rootLock EXCEPT !.writer = "none"]
    /\ Return(g, res[g])
    /\ UNCHANGED <<pkgCache, pkgLock, arg, stats, in, out, util>>

Next ==
    \E g \in Goroutines :
        \/ \E c \in RootCalls : RootCall(g, c[1], c[2])
        \/ RootRLock(g)
        \/ RootRead(g)
        \/ RootFields(g)
        \/ RootWLock(g)
        \/ RootWrite(g)

Spec == Init /\ [][Next]_vars

(***************************************************************************)
(* pkg/sliceutil: CompareStructs, ClearStructCache, GetStructCacheStats.   *)
(***************************************************************************)
\* PkgCompareStructs with the result stored in the cache under the derived key
PkgCompareStructsMemo(g, a, b) ==
    /\ AtRest(g)
    /\ arg' = [arg EXCEPT ![g] = <<a, b>>]
    /\ ret' = [ret EXCEPT ![g] = CompareStructs(a, b)]
    /\ pc' = [pc EXCEPT ![g] = "done"]
    /\ pkgCache' = IF EntryCheck(a, b) = "go"
                   THEN CachePut(pkgCache, PkgGenerateCacheKey(a, b), CompareStructs(a, b))
                   ELSE pkgCache
    /\ UNCHANGED <<rootCache, rootLock, pkgLock, stack, res, stats, in, out, util>>

\* CompareStructs(a, b) is called by goroutine g and returns: no step of it
\* accesses structCache
PkgCompareStructs(g, a, b) ==
    /\ AtRest(g)
    /\ arg' = [arg EXCEPT ![g] = <<a, b>>]
    /\ ret' = [ret EXCEPT ![g] = CompareStructs(a, b)]
    /\ pc' = [pc EXCEPT ![g] = "done"]
    /\ UNCHANGED <<rootCache, rootLock, pkgCache, pkgLock, stack, res, stats, in, out, util>>

\* ClearLock that does not wait for the readers to leave
ClearLockNoWait(g) ==
    /\ AtRest(g)
    /\ pkgLock.writer = "none"
    /\ pkgLock' = [pkgLock EXCEPT !.writer = g]
    /\ pc' = [pc EXCEPT ![g] = "clear"]
    /\ UNCHANGED <<rootCache, rootLock, pkgCache, stack, res, arg, ret, stats, in, out, util>>

\* ClearStructCache: structCache.Lock()
ClearLock(g) ==
    /\ AtRest(g)
    /\ pkgLock.writer = "none"
    /\ pkgLock.readers = {}
    /\ pkgLock' = [pkgLock EXCEPT !.writer = g]
    /\ pc' = [pc EXCEPT ![g] = "clear"]
    /\ UNCHANGED <<rootCache, rootLock, pkgCache, stack, res, arg, ret, stats, in, out, util>>

\* ClearStructCache: the map is replaced by a new one, then the deferred Unlock
ClearStructCache(g) ==
    /\ pc[g] = "clear"
    /\ pkgCache' = EmptyCache
    /\ pkgLock' = [pkgLock EXCEPT !.writer = "none"]
    /\ pc' = [pc EXCEPT ![g] = "cleared"]
    /\ UNCHANGED <<rootCache, rootLock, stack, res, arg, ret, stats, in, out, util>>

\* StatsRLock that does not wait for the writer to unlock
StatsRLockNoWait(g) ==
    /\ AtRest(g)
    /\ pkgLock' = [pkgLock EXCEPT !.readers = @ \cup {g}]
    /\ pc' = [pc EXCEPT ![g] = "stats"]
    /\ UNCHANGED <<rootCache, rootLock, pkgCache, stack, res, arg, ret, stats, in, out, util>>

\* GetStructCacheStats: structCache.RLock()
StatsRLock(g) ==
    /\ AtRest(g)
    /\ pkgLock.writer = "none"
    /\ pkgLock' = [pkgLock EXCEPT !.readers = @ \cup {g}]
    /\ pc' = [pc EXCEPT ![g] = "stats"]
    /\ UNCHANGED <<rootCache, rootLock, pkgCache, stack, res, arg, ret, stats, in, out, util>>

\* the map GetStructCacheStats builds from the cache
StatsOf(cache) ==
    [cache_size |-> Cardinality(DOMAIN cache), cache_keys |-> DOMAIN cache]

\* GetStructCacheStats: the stats are read, then the deferred RUnlock
GetStructCacheStats(g) ==
    /\ pc[g] = "stats"
    /\ stats' = [stats EXCEPT ![g] = StatsOf(pkgCache)]
    /\ pkgLock' = [pkgLock EXCEPT !.readers = @ \ {g}]
    /\ pc' = [pc EXCEPT ![g] = "reported"]
    /\ UNCHANGED <<rootCache, rootLock, pkgCache, stack, res, arg, ret, in, out, util>>

NextPkg ==
    \E g \in Goroutines :
        \/ \E c \in RootCalls : PkgCompareStructs(g, c[1], c[2])
        \/ ClearLock(g)
        \/ ClearStructCache(g)
        \/ StatsRLock(g)
        \/ GetStructCacheStats(g)

SpecPkg == Init /\ [][NextPkg]_vars

(***************************************************************************)
(* pkg/sliceutil: the cache under concurrent writes, clears and stats.     *)
(* cacheComparisonResult is the function of the package that writes the    *)
(* cache; GetStructCacheStats is taken apart into the two reads of its map *)
(* literal.                                                                *)
(***************************************************************************)
\* the comparisons whose results are stored in the cache
CachedCalls ==
    { <<P11, P11>>, <<P11, P12>>, <<IntV(1), IntV(1)>>, <<R11, R12>> }

\* cacheComparisonResult(key, result) for the comparison of a with b:
\* structCache.Lock()
PkgWLock(g, a, b) ==
    /\ AtRest(g)
    /\ pkgLock.writer = "none"
    /\ pkgLock.readers = {}
    /\ pkgLock' = [pkgLock EXCEPT !.writer = g]
    /\ arg' = [arg EXCEPT ![g] = <<a, b>>]
    /\ res' = [res EXCEPT ![g] = CompareStructs(a, b)]
    /\ pc' = [pc EXCEPT ![g] = "put"]
    /\ UNCHANGED <<rootCache, rootLock, pkgCache, stack, ret, stats, in, out, util>>

\* cacheComparisonResult: the insert, then the deferred Unlock
PkgWrite(g) ==
    /\ pc[g] = "put"
    /\ pkgCache' = CachePut(pkgCache, PkgGenerateCacheKey(arg[g][1], arg[g][2]), res[g])
    /\ pkgLock' = [pkgLock EXCEPT !.writer = "none"]
    /\ pc' = [pc EXCEPT ![g] = "idle"]
    /\ UNCHANGED <<rootCache, rootLock, stack, res, arg, ret, stats, in, out, util>>

\* GetStructCacheStats: "cache_size": len(structCache.cache)
StatsSize(g) ==
    /\ pc[g] = "stats"
    /\ stats' = [stats EXCEPT ![g].cache_size = Cardinality(DOMAIN pkgCache)]
    /\ pc' = [pc EXCEPT ![g] = "keys"]
    /\ UNCHANGED <<rootCache, rootLock, pkgCache, pkgLock, stack, res, arg, ret, in, out, util>>

\* GetStructCacheStats: "cache_keys": reflect.ValueOf(structCache.cache).MapKeys(),
\* then the deferred RUnlock
StatsKeys(g) ==
    /\ pc[g] = "keys"
    /\ stats' = [stats EXCEPT ![g].cache_keys = DOMAIN pkgCache]
    /\ pkgLock' = [pkgLock EXCEPT !.readers = @ \ {g}]
    /\ pc' = [pc EXCEPT ![g] = "reported"]
    /\ UNCHANGED <<rootCache, rootLock, pkgCache, stack, res, arg, ret, in, out, util>>

NextCache ==
    \E g \in Goroutines :
        \/ \E c \in CachedCalls : PkgWLock(g, c[1], c[2])
        \/ PkgWrite(g)
        \/ ClearLock(g)
        \/ ClearStructCache(g)
        \/ StatsRLock(g)
        \/ StatsSize(g)
        \/ StatsKeys(g)

SpecCache == Init /\ [][NextCache]_vars

(***************************************************************************)
(* The two caches and their locks together: goroutines that call the root  *)
(* CompareStructs and the cache functions of pkg/sliceutil in any order.   *)
(***************************************************************************)
\* getCachedComparison(key) for the comparison of a with b: structCache.RLock()
PkgRLock(g, a, b) ==
    /\ AtRest(g)
    /\ pkgLock.writer = "none"
    /\ pkgLock' = [pkgLock EXCEPT !.readers = @ \cup {g}]
    /\ arg' = [arg EXCEPT ![g] = <<a, b>>]
    /\ pc' = [pc EXCEPT ![g] = "get"]
    /\ UNCHANGED <<rootCache, rootLock, pkgCache, stack, res, ret, stats, in, out, util>>

\* getCachedComparison: the lookup, then the deferred RUnlock; the call
\* returns the cached result and whether it was found
PkgRead(g) ==
    /\ pc[g] = "get"
    /\ LET key == PkgGenerateCacheKey(arg[g][1], arg[g][2])
       IN  ret' = [ret EXCEPT ![g] = key \in DOMAIN pkgCache /\ pkgCache[key]]
    /\ pkgLock' = [pkgLock EXCEPT !.readers = @ \ {g}]
    /\ pc' = [pc EXCEPT ![g] = "idle"]
    /\ UNCHANGED <<rootCache, rootLock, pkgCache, stack, res, arg, stats, in, out, util>>

\* the comparisons of these runs: one that recurses into a nested struct, one
\* of equal values, one that the type check ends and two that a nil ends
LockCalls == { <<P11, P12>>, <<P11, P11>>, <<IntV(1), P11>>, <<NilV, P11>>, <<NilV, NilV>> }

NextLocks ==
    \E g \in Goroutines :
        \/ \E c \in LockCalls : RootCall(g, c[1], c[2])
        \/ \E c \in LockCalls : PkgCompareStructs(g, c[1], c[2])
        \/ RootRLock(g)
        \/ RootRead(g)
        \/ RootFields(g)
        \/ RootWLock(g)
        \/ RootWrite(g)
        \/ PkgRLock(g, P11, P12)
        \/ PkgRead(g)
        \/ PkgWLock(g, P11, P12)
        \/ PkgWrite(g)
        \/ ClearLock(g)
        \/ ClearStructCache(g)
        \/ StatsRLock(g)
        \/ GetStructCacheStats(g)

SpecLocks == Init /\ [][NextLocks]_vars

\* Scheduling: a goroutine that can take a step of its call takes it, and a
\* goroutine waiting in RLock or Lock gets the lock when it is free again and
\* again (sync.RWMutex lets neither readers nor writers starve). Starting a
\* call is up to the caller.
Fairness ==
    \A g \in Goroutines :
        /\ WF_vars(RootRead(g))
        /\ WF_vars(RootFields(g))
        /\ WF_vars(RootWrite(g))
        /\ WF_vars(PkgRead(g))
        /\ WF_vars(PkgWrite(g))
        /\ WF_vars(ClearStructCache(g))
        /\ WF_vars(GetStructCacheStats(g))
        /\ SF_vars(RootRLock(g))
        /\ SF_vars(RootWLock(g))

\* the comparisons of the fair runs: one that recurses into a nested struct
\* and one of equal values
FairCalls == { <<P11, P12>>, <<P11, P11>> }

NextFair ==
    \E g \in Goroutines :
        \/ \E c \in FairCalls : RootCall(g, c[1], c[2])
        \/ RootRLock(g)
        \/ RootRead(g)
        \/ RootFields(g)
        \/ RootWLock(g)
        \/ RootWrite(g)
        \/ PkgRLock(g, P11, P12)
        \/ PkgRead(g)
        \/ PkgWLock(g, P11, P12)
        \/ PkgWrite(g)
        \/ ClearLock(g)
        \/ ClearStructCache(g)
        \/ StatsRLock(g)
        \/ GetStructCacheStats(g)

SpecLocksFair == Init /\ [][NextFair]_vars /\ Fairness

(***************************************************************************)
(* One pair of operands <<a, b>> out of all Values: pkg/sliceutil compares *)
(* a with b (Apply); in the root package, starting from a new cache,       *)
(* goroutine g1 compares a with b and goroutine g2 compares b with a, each *)
(* any number of times.                                                    *)
(***************************************************************************)
InitPure ==
    /\ InitCommon
    /\ in \in Values \X Values

\* out := pkg/sliceutil CompareStructs(in)
Apply ==
    /\ ~out.done
    /\ out' = [done |-> TRUE, val |-> CompareStructs(in[1], in[2])]
    /\ UNCHANGED <<rootCache, rootLock, pkgCache, pkgLock, pc, stack, res, arg, ret, stats, in, util>>

NextPure ==
    \/ Apply
    \/ RootCall("g1", in[1], in[2])
    \/ RootCall("g2", in[2], in[1])
    \/ \E g \in Goroutines :
          \/ RootRLock(g)
          \/ RootRead(g)
          \/ RootFields(g)
          \/ RootWLock(g)
          \/ RootWrite(g)

SpecPure == InitPure /\ [][NextPure]_vars

(***************************************************************************)
(* The slice functions of the two packages. A call is one action: util     *)
(* holds the function, its package, its arguments and what it returned.    *)
(* The functions are pure, so a run is one call.                           *)
(***************************************************************************)
FloatV(n) == Val("float64", "float64", n, <<>>)

StrSlices ==
    {NilSlice("string"), SliceV("string", <<>>), SliceV("string", <<StrV(1)>>),
     SliceV("string", <<StrV(2), StrV(1)>>)}

BoolSlices == {NilSlice("bool"), SliceV("bool", <<BoolV(1)>>)}

FloatSlices ==
    {NilSlice("float64"), SliceV("float64", <<FloatV(1)>>),
     SliceV("float64", <<FloatV(2), FloatV(1)>>)}

\* a value of the named slice type IDs (type IDs []int)
IDsV(elems) == Val("slice", "main.IDs", 1, elems)

\* the slices a caller passes to the slice functions
Slices == IntSlices \cup StrSlices \cup BoolSlices \cup FloatSlices

\* the reflect.Values and interface values a caller passes to the functions
\* that take any value
AnyValues == Slices \cup {IDsV(<<IntV(1)>>), Invalid, NilV, IntV(1), P11}

\* CompareSlices that compares the common prefix of the two slices only
CompareSlicesPrefix(a, b) ==
    IF a.n = 0 \/ b.n = 0 THEN a.n = 0 /\ b.n = 0
    ELSE \A i \in 1..Len(a.f) : i <= Len(b.f) => a.f[i] = b.f[i]

\* pkg/sliceutil CompareSlices(a, b); a slice with n = 0 is nil
CompareSlices(a, b) ==
    IF a.n = 0 \/ b.n = 0 THEN a.n = 0 /\ b.n = 0
    ELSE IF Len(a.f) # Len(b.f) THEN FALSE
    ELSE \A i \in 1..Len(a.f) : a.f[i] = b.f[i]

\* v.Interface().(t): the type assertion holds for a value of exactly type t
AssertsTo(v, t) == TypeOf(v) = t

\* pkg/sliceutil CompareReflectionSlices(fieldA, fieldB)
CompareReflectionSlices(fieldA, fieldB) ==
    IF Kind(fieldA) # "slice" \/ Kind(fieldB) # "slice" THEN Returned(Bool(FALSE))
    ELSE IF TypeOf(fieldA) # TypeOf(fieldB) THEN Returned(Bool(FALSE))
    ELSE CASE ElemKind(fieldA) = "int" ->
                IF AssertsTo(fieldA, "[]int") /\ AssertsTo(fieldB, "[]int")
                THEN Returned(Bool(CompareSlices(fieldA, fieldB)))
                ELSE Panicked
           [] ElemKind(fieldA) = "string" ->
                IF AssertsTo(fieldA, "[]string") /\ AssertsTo(fieldB, "[]string")
                THEN Returned(Bool(CompareSlices(fieldA, fieldB)))
                ELSE Panicked
           [] OTHER -> Returned(Bool(FALSE))

\* root CompareReflectionSlices(fieldA, fieldB): the two types are not compared
RootCompareReflectionSlices(fieldA, fieldB) ==
    IF Kind(fieldA) # "slice" \/ Kind(fieldB) # "slice" THEN Returned(Bool(FALSE))
    ELSE CASE ElemKind(fieldA) = "int" ->
                IF AssertsTo(fieldA, "[]int") /\ AssertsTo(fieldB, "[]int")
                THEN Returned(Bool(RootCompareSlices(fieldA, fieldB)))
                ELSE Panicked
           [] ElemKind(fieldA) = "string" ->
                IF AssertsTo(fieldA, "[]string") /\ AssertsTo(fieldB, "[]string")
                THEN Returned(Bool(RootCompareSlices(fieldA, fieldB)))
                ELSE Panicked
           [] OTHER -> Returned(Bool(FALSE))

\* The call fn(args) of package p, on a first slice with spare elements of
\* capacity beyond its length, returns r and leaves its arguments as after;
\* shared tells whether the slice it returns shares storage with an argument.
CalledOnStorage(p, fn, args, spare, r, after, shared) ==
    util' = [fn |-> fn, pkg |-> p, args |-> args, spare |-> spare, res |-> r,
             after |-> after, shared |-> shared]

\* The call fn(args) of package p returns r; the function writes to no slice
\* it is given and returns none of them.
Called(p, fn, args, r) == CalledOnStorage(p, fn, args, 0, r, args, FALSE)

\* a call of a slice function leaves the caches and the goroutines alone
UtilFrame ==
    UNCHANGED <<rootCache, rootLock, pkgCache, pkgLock, pc, stack, res, arg, ret, stats, in, out>>

\* CompareSlices(a, b) of either package, on two slices of one element type
CallCompareSlices(p, a, b) ==
    /\ util = NoCall
    /\ TypeOf(a) = TypeOf(b)
    /\ Called(p, "CompareSlices", <<a, b>>,
              Returned(Bool(IF p = "pkg" THEN CompareSlices(a, b) ELSE RootCompareSlices(a, b))))
    /\ UtilFrame

\* CompareReflectionSlices(fieldA, fieldB) of either package
CallCompareReflectionSlices(p, a, b) ==
    /\ util = NoCall
    /\ Called(p, "CompareReflectionSlices", <<a, b>>,
              IF p = "pkg" THEN CompareReflectionSlices(a, b)
              ELSE RootCompareReflectionSlices(a, b))
    /\ UtilFrame

RECURSIVE Orderings(_)
\* the orders in which a range over a map with the keys S may visit them
Orderings(S) ==
    IF S = {} THEN {<<>>}
    ELSE UNION {{<<x>> \o s : s \in Orderings(S \ {x})} : x \in S}

\* m[v]++ on a map[T]int: a missing key counts as 0
MapInc(m, v) ==
    [k \in DOMAIN m \cup {v} |-> IF k = v THEN (IF v \in DOMAIN m THEN m[v] + 1 ELSE 1) ELSE m[k]]

\* m[v] = x
MapSet(m, v, x) == [k \in DOMAIN m \cup {v} |-> IF k = v THEN x ELSE m[k]]

\* delete(m, v)
MapDelete(m, v) == [k \in DOMAIN m \ {v} |-> m[k]]

RECURSIVE CountFirst(_, _, _)
\* pkg/sliceutil FindDifferences, the loop over a from index i: m[v]++
CountFirst(m, a, i) ==
    IF i > Len(a) THEN m ELSE CountFirst(MapInc(m, a[i]), a, i + 1)

RECURSIVE ProcessSecond(_, _, _)
\* pkg/sliceutil FindDifferences, the loop over b from index i
ProcessSecond(m, b, i) ==
    IF i > Len(b) THEN m
    ELSE LET v == b[i]
         IN  IF v \in DOMAIN m
             THEN IF m[v] = 1
                  THEN ProcessSecond(MapDelete(m, v), b, i + 1)
                  ELSE ProcessSecond(MapSet(m, v, m[v] - 1), b, i + 1)
             ELSE ProcessSecond(MapSet(m, v, -1), b, i + 1)

\* a new non-nil slice of the type of a with the elements elems
NewSlice(a, elems) == [a EXCEPT !.n = 1, !.f = elems]

\* pkg/sliceutil FindDifferences(a, b): the slices the call may return, one
\* for each order in which the range over the map visits its keys
FindDifferences(a, b) ==
    IF a.n = 0 /\ b.n = 0 THEN {NewSlice(a, <<>>)}
    ELSE IF a.n = 0 THEN {NewSlice(a, b.f)}
    ELSE IF b.n = 0 THEN {NewSlice(a, a.f)}
    ELSE LET m == ProcessSecond(CountFirst(<<>>, a.f, 1), b.f, 1)
             keys == {k \in DOMAIN m : m[k] # 0}
         IN  {NewSlice(a, s) : s \in Orderings(keys)}

RECURSIVE ToggleSecond(_, _, _)
\* root FindDifferences, the loop over b from index i; m is the set of the
\* keys of the map[T]bool, all of which map to true
ToggleSecond(m, b, i) ==
    IF i > Len(b) THEN m
    ELSE IF b[i] \in m THEN ToggleSecond(m \ {b[i]}, b, i + 1)
    ELSE ToggleSecond(m \cup {b[i]}, b, i + 1)

\* root FindDifferences(a, b): the slices the call may return
RootFindDifferences(a, b) ==
    LET m == ToggleSecond({a.f[i] : i \in 1..Len(a.f)}, b.f, 1)
    IN  {NewSlice(a, s) : s \in Orderings(m)}

\* FindDifferences(a, b) of either package is called and returns one of the
\* slices it may return
CallFindDifferences(p, a, b) ==
    /\ util = NoCall
    /\ TypeOf(a) = TypeOf(b)
    /\ \E r \in (IF p = "pkg" THEN FindDifferences(a, b) ELSE RootFindDifferences(a, b)) :
          Called(p, "FindDifferences", <<a, b>>, Returned(r))
    /\ UtilFrame

OrderAsc == "ASC"

OrderDesc == "DESC"

\* the values a caller passes as order
Orders == {OrderAsc, OrderDesc, "INVALID"}

RECURSIVE InsertSorted(_, _)
\* the ascending sequence s with x put in its place
InsertSorted(x, s) ==
    IF s = <<>> THEN <<x>>
    ELSE IF x.n <= Head(s).n THEN <<x>> \o s
    ELSE <<Head(s)>> \o InsertSorted(x, Tail(s))

RECURSIVE SortAsc(_)
\* sort.Ints, sort.Strings, sort.Float64s: the elements of s in ascending order
SortAsc(s) == IF s = <<>> THEN <<>> ELSE InsertSorted(Head(s), SortAsc(Tail(s)))

RECURSIVE SwapFrom(_, _, _)
\* pkg/sliceutil Reverse, the loop: a[i], a[j] = a[j], a[i] while i < j
SwapFrom(s, i, j) ==
    IF i < j THEN SwapFrom([s EXCEPT ![i] = s[j], ![j] = s[i]], i + 1, j - 1) ELSE s

\* pkg/sliceutil Reverse, on the elements of a slice
Reverse(s) == IF Len(s) <= 1 THEN s ELSE SwapFrom(s, 1, Len(s))

\* sort.Sort(sort.Reverse(...)): the elements of s in descending order
SortDesc(s) == Reverse(SortAsc(s))

\* MergeSlicesTyped that sorts in ascending order whatever the order asked for
MergeSlicesTypedAscending(a, b, order) ==
    IF a.n = 0 /\ b.n = 0 THEN a
    ELSE IF a.n = 0 THEN NewSlice(b, SortAsc(b.f))
    ELSE IF b.n = 0 THEN NewSlice(a, SortAsc(a.f))
    ELSE NewSlice(a, SortAsc(a.f \o b.f))

\* pkg/sliceutil MergeSlicesInt, MergeSlicesString and MergeSlicesFloat64, which
\* differ in the element type only: a and b are two slices of one type
MergeSlicesTyped(a, b, order) ==
    IF a.n = 0 /\ b.n = 0 THEN a
    ELSE IF a.n = 0
         THEN NewSlice(b, IF order = OrderDesc THEN Reverse(SortAsc(b.f)) ELSE SortAsc(b.f))
    ELSE IF b.n = 0
         THEN NewSlice(a, IF order = OrderDesc THEN Reverse(SortAsc(a.f)) ELSE SortAsc(a.f))
    ELSE NewSlice(a, IF order = OrderAsc THEN SortAsc(a.f \o b.f) ELSE SortDesc(a.f \o b.f))

\* what MergeSlices returns: the merged slice and the error
Merged(val, err) == [val |-> val, err |-> err]

\* MergeSlices without the validation of the order
MergeSlicesAnyOrder(a, b, order) ==
    IF TypeOf(a) \in {"[]int", "[]string", "[]float64"}
    THEN IF TypeOf(b) # TypeOf(a) THEN Merged(NilV, "ErrTypeMismatch")
         ELSE Merged(MergeSlicesTyped(a, b, order), "nil")
    ELSE Merged(NilV, "ErrUnsupportedType")

\* pkg/sliceutil MergeSlices(a, b, order)
MergeSlices(a, b, order) ==
    IF order # OrderAsc /\ order # OrderDesc THEN Merged(NilV, "ErrUnsupportedType")
    ELSE IF TypeOf(a) \in {"[]int", "[]string", "[]float64"}
         THEN IF TypeOf(b) # TypeOf(a) THEN Merged(NilV, "ErrTypeMismatch")
              ELSE Merged(MergeSlicesTyped(a, b, order), "nil")
    ELSE Merged(NilV, "ErrUnsupportedType")

\* pkg/sliceutil MergeSlices(a, b, order) is called
CallMergeSlices(a, b, order) ==
    /\ util = NoCall
    /\ Called("pkg", "MergeSlices", <<a, b, order>>,
              Outcome(FALSE, MergeSlices(a, b, order).val, MergeSlices(a, b, order).err))
    /\ UtilFrame

\* the operands of the merges
MergeOperands ==
    {s \in IntSlices : Len(s.f) <= 1} \cup {SliceV("int", <<IntV(2), IntV(1)>>)}
        \cup StrSlices \cup FloatSlices \cup BoolSlices \cup {IDsV(<<IntV(1)>>), NilV, IntV(1)}

\* the name of the typed merge for slices of the type of a
TypedMergeName(a) ==
    CASE TypeOf(a) = "[]int" -> "MergeSlicesInt"
      [] TypeOf(a) = "[]string" -> "MergeSlicesString"
      [] OTHER -> "MergeSlicesFloat64"

\* MergeSlicesInt, MergeSlicesString or MergeSlicesFloat64 is called on two
\* slices of its element type
CallMergeSlicesTyped(a, b, order) ==
    /\ util = NoCall
    /\ TypeOf(a) = TypeOf(b)
    /\ Called("pkg", TypedMergeName(a), <<a, b, order>>, Returned(MergeSlicesTyped(a, b, order)))
    /\ UtilFrame

\* the less function the callers of MergeSlicesGeneric pass: a strict less-than
Less(x, y) == x.n < y.n

\* the function MergeSlicesGeneric hands to sort.Slice
LessInOrder(x, y, order) == IF order = OrderAsc THEN Less(x, y) ELSE Less(y, x)

RECURSIVE InsertInOrder(_, _, _)
\* the sequence s, sorted by LessInOrder, with x put in its place
InsertInOrder(x, s, order) ==
    IF s = <<>> THEN <<x>>
    ELSE IF LessInOrder(Head(s), x, order) THEN <<Head(s)>> \o InsertInOrder(x, Tail(s), order)
    ELSE <<x>> \o s

RECURSIVE SortSlice(_, _)
\* sort.Slice(s, LessInOrder): elements that neither is less than the other
\* are equal values here, so the outcome is one sequence
SortSlice(s, order) ==
    IF s = <<>> THEN <<>> ELSE InsertInOrder(Head(s), SortSlice(Tail(s), order), order)

\* pkg/sliceutil MergeSlicesGeneric(a, b, order, Less)
MergeSlicesGeneric(a, b, order) ==
    IF a.n = 0 /\ b.n = 0 THEN a
    ELSE IF a.n = 0 THEN NewSlice(b, SortSlice(b.f, order))
    ELSE IF b.n = 0 THEN NewSlice(a, SortSlice(a.f, order))
    ELSE NewSlice(a, SortSlice(a.f \o b.f, order))

\* MergeSlicesGeneric(a, b, order, Less) is called
CallMergeSlicesGeneric(a, b, order) ==
    /\ util = NoCall
    /\ TypeOf(a) = TypeOf(b)
    /\ Called("pkg", "MergeSlicesGeneric", <<a, b, order>>, Returned(MergeSlicesGeneric(a, b, order)))
    /\ UtilFrame

RECURSIVE MaxFrom(_, _, _)
\* MaxInt, the loop over a from index i with max as found so far
MaxFrom(max, a, i) ==
    IF i > Len(a) THEN max
    ELSE MaxFrom(IF a[i].n > max.n THEN a[i] ELSE max, a, i + 1)

RECURSIVE MinFrom(_, _, _)
\* MinInt, the loop over a from index i with min as found so far
MinFrom(min, a, i) ==
    IF i > Len(a) THEN min
    ELSE MinFrom(IF a[i].n < min.n THEN a[i] ELSE min, a, i + 1)

\* MaxInt without the check for a nil slice
MaxIntNoNilCheck(a) ==
    IF Len(a.f) = 0 THEN Outcome(FALSE, IntV(0), "ErrEmptySlice")
    ELSE Returned(MaxFrom(a.f[1], a.f, 1))

\* pkg/sliceutil MaxInt(a)
MaxInt(a) ==
    IF a.n = 0 THEN Outcome(FALSE, IntV(0), "ErrNilSlice")
    ELSE IF Len(a.f) = 0 THEN Outcome(FALSE, IntV(0), "ErrEmptySlice")
    ELSE Returned(MaxFrom(a.f[1], a.f, 1))

\* pkg/sliceutil MinInt(a)
MinInt(a) ==
    IF a.n = 0 THEN Outcome(FALSE, IntV(0), "ErrNilSlice")
    ELSE IF Len(a.f) = 0 THEN Outcome(FALSE, IntV(0), "ErrEmptySlice")
    ELSE Returned(MinFrom(a.f[1], a.f, 1))

\* MaxInt(a) is called
CallMaxInt(a) ==
    /\ util = NoCall
    /\ Called("pkg", "MaxInt", <<a>>, MaxInt(a))
    /\ UtilFrame

\* MinInt(a) is called
CallMinInt(a) ==
    /\ util = NoCall
    /\ Called("pkg", "MinInt", <<a>>, MinInt(a))
    /\ UtilFrame

\* slices in which a value comes back after another one
Repeating ==
    {SliceV("int", <<IntV(1), IntV(2), IntV(1)>>), SliceV("int", <<IntV(2), IntV(1), IntV(2)>>),
     SliceV("int", <<IntV(2), IntV(2), IntV(1)>>), SliceV("int", <<IntV(2), IntV(1), IntV(1), IntV(2)>>)}

\* a slice in the storage store: "new" for an array the call allocated, "a"
\* for the array of its first argument, "none" for a nil slice
Stored(val, store) == [val |-> val, store |-> store]

RECURSIVE KeepLastFrom(_, _, _)
\* the elements of a from index i that do not occur again after it, after result
KeepLastFrom(result, a, i) ==
    IF i > Len(a) THEN result
    ELSE IF \E j \in (i + 1)..Len(a) : a[j] = a[i] THEN KeepLastFrom(result, a, i + 1)
    ELSE KeepLastFrom(Append(result, a[i]), a, i + 1)

\* RemoveDuplicates that keeps the last occurrence of each value
RemoveDuplicatesKeepLast(a) ==
    IF a.n = 0 THEN Stored(a, "none")
    ELSE IF Len(a.f) <= 1 THEN Stored(NewSlice(a, a.f), "new")
    ELSE Stored(NewSlice(a, KeepLastFrom(<<>>, a.f, 1)), "new")

RECURSIVE AppendUnseen(_, _, _, _)
\* RemoveDuplicates, the loop over a from index i: seen is the set of the keys
\* of the map, result the slice appended to so far
AppendUnseen(seen, result, a, i) ==
    IF i > Len(a) THEN result
    ELSE IF a[i] \notin seen THEN AppendUnseen(seen \cup {a[i]}, Append(result, a[i]), a, i + 1)
    ELSE AppendUnseen(seen, result, a, i + 1)

\* pkg/sliceutil RemoveDuplicates(a): result is made with capacity len(a), so
\* no append leaves its array
RemoveDuplicates(a) ==
    IF a.n = 0 THEN Stored(a, "none")
    ELSE IF Len(a.f) <= 1 THEN Stored(NewSlice(a, a.f), "new")
    ELSE Stored(NewSlice(a, AppendUnseen({}, <<>>, a.f, 1)), "new")

\* RemoveDuplicates(a) is called; a is read only
CallRemoveDuplicates(a) ==
    /\ util = NoCall
    /\ CalledOnStorage("pkg", "RemoveDuplicates", <<a>>, 0, Returned(RemoveDuplicates(a).val),
                       <<a>>, RemoveDuplicates(a).store = "a")
    /\ UtilFrame

\* the argument a after a call that wrote the slice h: h shows in a when it
\* lies in the array of a
AfterWrite(a, h) ==
    IF h.store = "a" THEN [a EXCEPT !.f = SubSeq(h.val.f, 1, Len(a.f))] ELSE a

\* Reverse(a) is called: the elements of a are swapped in its own array
CallReverse(a) ==
    /\ util = NoCall
    /\ CalledOnStorage("pkg", "Reverse", <<a>>, 0, Returned(NilV),
                       <<AfterWrite(a, Stored([a EXCEPT !.f = Reverse(a.f)], "a"))>>, FALSE)
    /\ UtilFrame

\* ReverseCopy that reverses a itself and returns it
ReverseCopyInPlace(a) ==
    IF a.n = 0 THEN Stored(a, "none")
    ELSE Stored(NewSlice(a, Reverse(a.f)), "a")

\* pkg/sliceutil ReverseCopy(a): Reverse works on the copy
ReverseCopy(a) ==
    IF a.n = 0 THEN Stored(a, "none")
    ELSE Stored(NewSlice(a, Reverse(a.f)), "new")

\* ReverseCopy(a) is called
CallReverseCopy(a) ==
    /\ util = NoCall
    /\ CalledOnStorage("pkg", "ReverseCopy", <<a>>, 0, Returned(ReverseCopy(a).val),
                       <<AfterWrite(a, ReverseCopy(a))>>, ReverseCopy(a).store = "a")
    /\ UtilFrame

\* make(map[T]int)
EmptyMap == [k \in {} |-> 0]

RECURSIVE SetEach(_, _, _, _)
\* FindDifferencesWithCount with a nil slice, the loop over s from index i:
\* result[v] = x
SetEach(result, s, i, x) ==
    IF i > Len(s) THEN result ELSE SetEach(MapSet(result, s[i], x), s, i + 1, x)

RECURSIVE CountSecond(_, _, _)
\* FindDifferencesWithCount, the loop over b from index i
CountSecond(m, b, i) ==
    IF i > Len(b) THEN m
    ELSE IF b[i] \in DOMAIN m THEN CountSecond(MapSet(m, b[i], m[b[i]] - 1), b, i + 1)
    ELSE CountSecond(MapSet(m, b[i], -1), b, i + 1)

\* pkg/sliceutil FindDifferencesWithCount(a, b): the map it returns
FindDifferencesWithCount(a, b) ==
    IF a.n = 0 /\ b.n = 0 THEN EmptyMap
    ELSE IF a.n = 0 THEN SetEach(EmptyMap, b.f, 1, -1)
    ELSE IF b.n = 0 THEN SetEach(EmptyMap, a.f, 1, 1)
    ELSE LET m == CountSecond(CountFirst(EmptyMap, a.f, 1), b.f, 1)
         IN  [k \in {x \in DOMAIN m : m[x] # 0} |-> m[k]]

\* A map[T]int as a value: its entries in the order of their keys, an entry
\* being its count n and its key.
MapV(m) ==
    LET keys == SortAsc(CHOOSE s \in Orderings(DOMAIN m) : TRUE)
    IN  Val("map", "map[int]int", 1, [i \in 1..Len(keys) |-> Val("entry", "int", m[keys[i]], <<keys[i]>>)])

\* FindDifferencesWithCount(a, b) is called
CallFindDifferencesWithCount(a, b) ==
    /\ util = NoCall
    /\ Called("pkg", "FindDifferencesWithCount", <<a, b>>, Returned(MapV(FindDifferencesWithCount(a, b))))
    /\ UtilFrame

\* make([]T, ...) filled with elems, or append([]T{}, elems...): a slice of
\* the type of like in an array of its own
MakeSlice(like, elems) == Stored(NewSlice(like, elems), "new")

\* append(h, src...) for a slice h with spare elements of capacity beyond its
\* length: the elements go into the array of h when they fit, else into a
\* new array; nothing appended to nil is nil
AppendSpread(h, spare, src) ==
    IF Len(src) <= spare THEN Stored([h.val EXCEPT !.f = @ \o src], h.store)
    ELSE MakeSlice(h.val, h.val.f \o src)

\* sort.Slice and sort.SliceStable on h with the less function of the order:
\* the elements are ordered in the array of h
SortIn(h, order) == Stored([h.val EXCEPT !.f = SortSlice(@, order)], h.store)

\* the slice h lies in the array of the first argument a, which has spare
\* elements of capacity beyond its length
SharesWith(h, a, spare) == h.store = "a" /\ Len(a.f) + spare > 0

\* root MergeSlices(a, b, order) for a and b of one of its two types:
\* merged := append(a, b...), sorted where it lies
RootMergeSlices(a, spare, b, order) ==
    SortIn(AppendSpread(Stored(a, "a"), spare, b.f), order)

\* root MergeSlices(a, b, order) is called on a first slice with spare
\* elements of capacity: b.([]int) and b.([]string) panic for another type
CallRootMergeSlices(a, spare, b, order) ==
    /\ util = NoCall
    /\ a.n = 0 => spare = 0
    /\ IF TypeOf(a) \notin {"[]int", "[]string"}
       THEN Called("root", "MergeSlices", <<a, b, order>>, Returned(NilV))
       ELSE IF TypeOf(b) # TypeOf(a)
       THEN Called("root", "MergeSlices", <<a, b, order>>, Panicked)
       ELSE LET merged == RootMergeSlices(a, spare, b, order)
            IN  CalledOnStorage("root", "MergeSlices", <<a, b, order>>, spare, Returned(merged.val),
                                <<AfterWrite(a, merged), b, order>>, SharesWith(merged, a, spare))
    /\ UtilFrame

\* MergeSlicesWithStableSort and MergeSlicesWithDeduplication: merged, a copy
\* of the slice that is not nil or the two slices in a slice made for them
MergedCopy(a, b) ==
    IF a.n = 0 THEN MakeSlice(b, b.f)
    ELSE IF b.n = 0 THEN MakeSlice(a, a.f)
    ELSE AppendSpread(AppendSpread(MakeSlice(a, <<>>), Len(a.f) + Len(b.f), a.f), Len(b.f), b.f)

\* pkg/sliceutil MergeSlicesWithStableSort(a, b, order, Less)
MergeSlicesWithStableSort(a, b, order) ==
    IF a.n = 0 /\ b.n = 0 THEN Stored(a, "none")
    ELSE SortIn(MergedCopy(a, b), order)

\* pkg/sliceutil MergeSlicesWithDeduplication(a, b, order, Less)
MergeSlicesWithDeduplication(a, b, order) ==
    IF a.n = 0 /\ b.n = 0 THEN Stored(a, "none")
    ELSE SortIn(RemoveDuplicates(MergedCopy(a, b).val), order)

\* MergeSlicesWithStableSort(a, b, order, Less) is called
CallMergeSlicesWithStableSort(a, b, order) ==
    /\ util = NoCall
    /\ TypeOf(a) = TypeOf(b)
    /\ LET merged == MergeSlicesWithStableSort(a, b, order)
       IN  CalledOnStorage("pkg", "MergeSlicesWithStableSort", <<a, b, order>>, 0, Returned(merged.val),
                           <<AfterWrite(a, merged), b, order>>, SharesWith(merged, a, 0))
    /\ UtilFrame

\* MergeSlicesWithDeduplication(a, b, order, Less) is called
CallMergeSlicesWithDeduplication(a, b, order) ==
    /\ util = NoCall
    /\ TypeOf(a) = TypeOf(b)
    /\ LET merged == MergeSlicesWithDeduplication(a, b, order)
       IN  CalledOnStorage("pkg", "MergeSlicesWithDeduplication", <<a, b, order>>, 0, Returned(merged.val),
                           <<AfterWrite(a, merged), b, order>>, SharesWith(merged, a, 0))
    /\ UtilFrame

NextUtil ==
    \/ \E p \in {"pkg", "root"} : \E a, b \in IntSlices \cup StrSlices :
          CallCompareSlices(p, a, b)
    \/ \E p \in {"pkg", "root"} : \E a, b \in AnyValues :
          CallCompareReflectionSlices(p, a, b)
    \/ \E p \in {"pkg", "root"} : \E a, b \in IntSlices :
          CallFindDifferences(p, a, b)
    \/ \E a, b \in MergeOperands : \E order \in Orders :
          CallMergeSlices(a, b, order)
    \/ \E a, b \in IntSlices \cup StrSlices \cup FloatSlices : \E order \in Orders :
          CallMergeSlicesTyped(a, b, order)
    \/ \E a, b \in IntSlices \cup StrSlices : \E order \in Orders :
          CallMergeSlicesGeneric(a, b, order)
    \/ \E a, b \in MergeOperands : \E spare \in 0..MaxLen : \E order \in Orders :
          CallRootMergeSlices(a, spare, b, order)
    \/ \E a, b \in IntSlices \cup StrSlices : \E order \in Orders :
          CallMergeSlicesWithStableSort(a, b, order)
    \/ \E a, b \in IntSlices \cup StrSlices : \E order \in Orders :
          CallMergeSlicesWithDeduplication(a, b, order)
    \/ \E a \in IntSlices : CallMaxInt(a)
    \/ \E a \in IntSlices : CallMinInt(a)
    \/ \E a \in IntSlices \cup Repeating : CallRemoveDuplicates(a)
    \/ \E a, b \in IntSlices : CallFindDifferencesWithCount(a, b)
    \/ \E a \in IntSlices \cup Repeating : CallReverse(a)
    \/ \E a \in IntSlices \cup Repeating : CallReverseCopy(a)

SpecUtil == Init /\ [][NextUtil]_vars

(***************************************************************************)
(* Properties.                                                             *)
(***************************************************************************)
\* C1 (cache transparency): every root CompareStructs call that has returned
\* returned the boolean the cache-free structural comparison of its operands
\* returns, whatever was compared before it.
C1_CacheTransparency ==
    \A g \in Goroutines :
        (pc[g] = "done" /\ ~Structural(arg[g][1], arg[g][2]).panic) =>
            ret[g] = Structural(arg[g][1], arg[g][2]).val

\* C2 (memoization protocol): when a pkg/sliceutil CompareStructs call on two
\* non-nil operands of the same type returns, the cache maps the derived key
\* to the boolean the call returned.
C2_MemoizationProtocol ==
    [][\A g \in Goroutines : \A c \in RootCalls :
          (PkgCompareStructs(g, c[1], c[2]) /\ EntryCheck(c[1], c[2]) = "go") =>
              /\ PkgGenerateCacheKey(c[1], c[2]) \in DOMAIN pkgCache'
              /\ pkgCache'[PkgGenerateCacheKey(c[1], c[2])] = ret'[g]]_vars

\* C3 (cache growth bound): in a run of the root package where every
\* top-level call compares the same two operands (in either order), so that
\* at most one top-level key was ever compared, the cache holds at most one
\* entry.
C3_CacheGrowthBound == Cardinality(DOMAIN rootCache) <= 1

\* C4 (entries are immutable): no step of the root package changes or removes
\* the boolean a cache key is mapped to.
C4_EntriesImmutable ==
    [][\A k \in DOMAIN rootCache :
          k \in DOMAIN rootCache' /\ rootCache'[k] = rootCache[k]]_vars

C7_Reflexivity ==
    \A g \in Goroutines :
        (pc[g] = "done" /\ arg[g][1] = arg[g][2]) => ret[g]

\* C8 (symmetry): pkg/sliceutil CompareStructs(a, b) equals CompareStructs(b, a),
\* and in the root package a call on (a, b) and a call on (b, a) have the same
\* outcome.
C8_Symmetry ==
    /\ out.done => out.val = CompareStructs(in[2], in[1])
    /\ (pc["g1"] \in {"done", "panic"} /\ pc["g2"] \in {"done", "panic"}) =>
          pc["g1"] = pc["g2"] /\ ret["g1"] = ret["g2"]

\* the types of the two operands under test differ (neither is the nil interface)
TypesDiffer == in[1] # NilV /\ in[2] # NilV /\ TypeOf(in[1]) # TypeOf(in[2])

\* C9 (type strictness): for two non-nil operands of different types,
\* pkg/sliceutil CompareStructs returns false, and the root CompareStructs
\* returns false from its entry checks: it never gets to the cache lookup, the
\* dereference or the field loop, and leaves the cache empty.
C9_TypeStrictness ==
    TypesDiffer =>
        /\ out.done => ~out.val
        /\ \A g \in Goroutines :
              /\ pc[g] \in {"idle", "done"}
              /\ pc[g] = "done" => ~ret[g]
              /\ stack[g] = <<>>
        /\ rootCache = EmptyCache

C9_Witness ==
    /\ in = <<PtrV(1, P11), P11>>
    /\ out.done /\ ~out.val
    /\ pc["g1"] = "done" /\ ~ret["g1"]
    /\ pc["g2"] = "done" /\ ~ret["g2"]

\* C10 (nil operands): CompareStructs(nil, nil) returns true and a comparison
\* of nil with a non-nil value returns false, in both packages, without a
\* panic and without going past the entry checks.
C10_NilOperands ==
    (in[1] = NilV \/ in[2] = NilV) =>
        /\ out.done => (out.val <=> (in[1] = NilV /\ in[2] = NilV))
        /\ \A g \in Goroutines :
              /\ pc[g] \in {"idle", "done"}
              /\ pc[g] = "done" => (ret[g] <=> (in[1] = NilV /\ in[2] = NilV))

C10_Witness ==
    /\ in[1] = P11 /\ in[2] = NilV
    /\ out.done /\ ~out.val
    /\ pc["g1"] = "done" /\ ~ret["g1"]
    /\ pc["g2"] = "done" /\ ~ret["g2"]

RECURSIVE FieldwiseEqual(_, _)
\* x and y are recursively equal on what is accessible of them: structs field
\* by field over their exported fields, slices by length and element by
\* element in order, pointers by their referents, anything else by ==.
FieldwiseEqual(x, y) ==
    IF TypeOf(x) # TypeOf(y) THEN FALSE
    ELSE CASE Kind(x) = "struct" ->
                \A i \in 1..Len(x.f) : CanInterface(x.t, i) => FieldwiseEqual(x.f[i], y.f[i])
           [] Kind(x) = "slice" ->
                /\ Len(x.f) = Len(y.f)
                /\ \A i \in 1..Len(x.f) : FieldwiseEqual(x.f[i], y.f[i])
           [] Kind(x) = "ptr" ->
                \/ x.n = 0 /\ y.n = 0
                \/ x.n # 0 /\ y.n # 0 /\ FieldwiseEqual(x.f[1], y.f[1])
           [] OTHER -> x.n = y.n

\* a and b are two pointers of the same type
SamePointerType(a, b) == Kind(a) = "ptr" /\ Kind(b) = "ptr" /\ TypeOf(a) = TypeOf(b)

\* C11 (pointers are compared by content): for two pointers of the same type,
\* CompareStructs returns true if both are nil pointers, false if exactly one
\* is, and otherwise what the comparison of the two referents returns; no call
\* on two such pointers panics. Checked for pkg/sliceutil (out) and for calls
\* of the root package on a new cache.
C11_PointerContent ==
    SamePointerType(in[1], in[2]) =>
        /\ out.done =>
              out.val = IF in[1].n = 0 \/ in[2].n = 0 THEN in[1].n = 0 /\ in[2].n = 0
                        ELSE CompareStructs(in[1].f[1], in[2].f[1])
        /\ \A g \in Goroutines :
              /\ pc[g] # "panic"
              /\ pc[g] = "done" =>
                    ret[g] = IF in[1].n = 0 \/ in[2].n = 0 THEN in[1].n = 0 /\ in[2].n = 0
                             ELSE Structural(in[1].f[1], in[2].f[1]).val

\* a and b are two struct values of the same type
SameStructType(a, b) == Kind(a) = "struct" /\ Kind(b) = "struct" /\ TypeOf(a) = TypeOf(b)

\* C12 (field-wise deep equality): every root CompareStructs call on two
\* struct values of the same type that has returned, returned true exactly
\* when all pairs of exported fields are recursively equal, whatever pairs of
\* that type were compared before it.
C12_FieldwiseEquality ==
    \A g \in Goroutines :
        (pc[g] = "done" /\ SameStructType(arg[g][1], arg[g][2])) =>
            (ret[g] <=> FieldwiseEqual(arg[g][1], arg[g][2]))

\* C13 (unexported fields are skipped everywhere): two values of the same type
\* that differ in unexported struct fields only (at top level, in a nested
\* struct, behind a pointer or in the elements of a slice field) compare
\* equal, in pkg/sliceutil and in the root package.
C13_UnexportedSkipped ==
    (in[1] # NilV /\ in[2] # NilV /\ FieldwiseEqual(in[1], in[2])) =>
        /\ out.done => out.val
        /\ \A g \in Goroutines : pc[g] = "done" => ret[g]

\* v is a struct all of whose fields are slices
SliceFieldsOnly(v) ==
    /\ Kind(v) = "struct"
    /\ Len(v.f) > 0
    /\ \A i \in 1..Len(v.f) : Kind(v.f[i]) = "slice"

\* the slices s and t have the same length and equal elements at every index
SameSequence(s, t) ==
    /\ Len(s.f) = Len(t.f)
    /\ \A i \in 1..Len(s.f) : s.f[i] = t.f[i]

\* C14 (sequence fields are compared in order): for two structs of the same
\* type whose fields are slices, of any element type, CompareStructs returns
\* true exactly when each pair of fields has the same length and equal
\* elements at every index, in pkg/sliceutil and in the root package.
C14_SequenceFields ==
    (SameStructType(in[1], in[2]) /\ SliceFieldsOnly(in[1])) =>
        LET expected == \A i \in 1..Len(in[1].f) : SameSequence(in[1].f[i], in[2].f[i])
        IN  /\ out.done => (out.val <=> expected)
            /\ \A g \in Goroutines : pc[g] = "done" => (ret[g] <=> expected)

\* C15 (totality): no CompareStructs call panics, whatever its two operands
\* are; every call returns a boolean.
C15_Totality ==
    \A g \in Goroutines : pc[g] # "panic"

\* C16 (CompareReflectionSlices supports exactly []int and []string): no call
\* panics; for two values both of type []int or both of type []string the
\* call returns what CompareSlices of its package returns on them, and for
\* every other pair of values it returns false.
C16_ReflectionSlices ==
    util.fn = "CompareReflectionSlices" =>
        LET a == util.args[1]
            b == util.args[2]
        IN  /\ ~util.res.panic
            /\ IF TypeOf(a) = TypeOf(b) /\ TypeOf(a) \in {"[]int", "[]string"}
               THEN util.res.val = Bool(IF util.pkg = "pkg" THEN CompareSlices(a, b)
                                        ELSE RootCompareSlices(a, b))
               ELSE util.res.val = Bool(FALSE)

\* C18 (CompareSlices): every CompareSlices call returns true exactly when its
\* two slices have the same length and equal elements at every index, nil and
\* empty slices included.
C18_CompareSlices ==
    util.fn = "CompareSlices" =>
        util.res = Returned(Bool(SameSequence(util.args[1], util.args[2])))

\* C18 as amended: the root CompareSlices returns true exactly when the two
\* slices have the same length and equal elements at every index; so does the
\* CompareSlices of pkg/sliceutil when both slices are nil or both are not,
\* and it returns false when exactly one of them is nil, a nil and an empty
\* slice included.
C18_CompareSlicesAmended ==
    util.fn = "CompareSlices" =>
        LET a == util.args[1]
            b == util.args[2]
        IN  IF util.pkg = "pkg" /\ (a.n = 0) # (b.n = 0)
            THEN util.res = Returned(Bool(FALSE))
            ELSE util.res = Returned(Bool(SameSequence(a, b)))

C18_Witness ==
    /\ util.fn = "CompareSlices"
    /\ util.pkg = "pkg"
    /\ util.args = <<NilSlice("int"), SliceV("int", <<>>)>>
    /\ util.res = Returned(Bool(FALSE))

\* the values that occur in the slice s
Elems(s) == {s.f[i] : i \in 1..Len(s.f)}

\* C19 (FindDifferences is the symmetric difference): the slice a
\* FindDifferences call returns holds a value exactly when that value occurs
\* in exactly one of a and b, and holds it once.
C19_SymmetricDifference ==
    util.fn = "FindDifferences" =>
        LET a == util.args[1]
            b == util.args[2]
            r == util.res.val
        IN  /\ ~util.res.panic
            /\ Elems(r) = (Elems(a) \ Elems(b)) \cup (Elems(b) \ Elems(a))
            /\ Len(r.f) = Cardinality(Elems(r))

\* s is ordered as order says
Ordered(s, order) ==
    \A i \in 1..(Len(s) - 1) :
        IF order = "ASC" THEN s[i].n <= s[i + 1].n ELSE s[i].n >= s[i + 1].n

\* the number of times x occurs in the sequence s
Occurrences(x, s) == Cardinality({i \in 1..Len(s) : s[i] = x})

\* C20 (MergeSlices error outcomes): pkg/sliceutil MergeSlices returns (nil,
\* ErrUnsupportedType) when the order is neither OrderAsc nor OrderDesc;
\* otherwise (nil, ErrTypeMismatch) when a is a []int, []string or []float64
\* and b is of another type; otherwise (nil, ErrUnsupportedType) when a is of
\* any other type; and otherwise no error and the slice of the type of a that
\* holds the elements of a and b in the order asked for.
C20_MergeErrors ==
    (util.pkg = "pkg" /\ util.fn = "MergeSlices") =>
        LET a == util.args[1]
            b == util.args[2]
            order == util.args[3]
            r == util.res
        IN  IF order \notin {"ASC", "DESC"} THEN r = Outcome(FALSE, NilV, "ErrUnsupportedType")
            ELSE IF TypeOf(a) \in {"[]int", "[]string", "[]float64"} /\ TypeOf(b) # TypeOf(a)
                 THEN r = Outcome(FALSE, NilV, "ErrTypeMismatch")
            ELSE IF TypeOf(a) \notin {"[]int", "[]string", "[]float64"}
                 THEN r = Outcome(FALSE, NilV, "ErrUnsupportedType")
            ELSE /\ ~r.panic
                 /\ r.err = "nil"
                 /\ TypeOf(r.val) = TypeOf(a)
                 /\ Ordered(r.val.f, order)
                 /\ \A x \in Elems(a) \cup Elems(b) \cup Elems(r.val) :
                       Occurrences(x, r.val.f) = Occurrences(x, a.f) + Occurrences(x, b.f)

C20_Witness ==
    /\ util.pkg = "pkg"
    /\ util.fn = "MergeSlices"
    /\ util.args = <<SliceV("int", <<IntV(2), IntV(1)>>), SliceV("string", <<StrV(1)>>), "DESC">>
    /\ util.res = Outcome(FALSE, NilV, "ErrTypeMismatch")

\* C17 (GetStructCacheStats reports one consistent snapshot): from the RLock
\* of a GetStructCacheStats call to its return no write and no clear changes
\* the cache, and the call returns a cache_size that is the number of its
\* cache_keys, both read from that one cache.
C17_ConsistentSnapshot ==
    [][\A g \in Goroutines :
          /\ pc[g] \in {"stats", "keys"} => pkgCache' = pkgCache
          /\ (pc[g] = "keys" /\ pc'[g] = "reported") =>
                /\ stats'[g] = StatsOf(pkgCache)
                /\ stats'[g].cache_size = Cardinality(stats'[g].cache_keys)]_vars

C17_Witness ==
    /\ pc["g1"] = "reported"
    /\ stats["g1"].cache_size = 2
    /\ pc["g2"] = "cleared"
    /\ pkgCache = EmptyCache

\* the typed merges and the generic one
MergeNames == {"MergeSlicesInt", "MergeSlicesString", "MergeSlicesFloat64", "MergeSlicesGeneric"}

\* C21 (merge is the sorted concatenation): for the orders OrderAsc and
\* OrderDesc a typed or generic merge returns a slice of length
\* len(a) + len(b) that holds every value as often as a and b together do,
\* non-decreasing for OrderAsc and non-increasing for OrderDesc; the result is
\* nil when both slices are nil.
C21_SortedConcatenation ==
    (util.fn \in MergeNames /\ util.args[3] \in {OrderAsc, OrderDesc}) =>
        LET a == util.args[1]
            b == util.args[2]
            r == util.res.val
        IN  /\ util.res = Returned(r)
            /\ TypeOf(r) = TypeOf(a)
            /\ Len(r.f) = Len(a.f) + Len(b.f)
            /\ \A x \in Elems(a) \cup Elems(b) \cup Elems(r) :
                  Occurrences(x, r.f) = Occurrences(x, a.f) + Occurrences(x, b.f)
            /\ Ordered(r.f, util.args[3])
            /\ (a.n = 0 /\ b.n = 0) => r.n = 0

C21_Witness ==
    /\ util.fn = "MergeSlicesGeneric"
    /\ util.args = <<SliceV("int", <<IntV(2), IntV(1)>>), SliceV("int", <<IntV(1), IntV(2)>>), OrderDesc>>
    /\ util.res.val = SliceV("int", <<IntV(2), IntV(2), IntV(1), IntV(1)>>)

\* C22 (MaxInt and MinInt): for a nil slice they return (0, ErrNilSlice), for
\* an empty slice that is not nil (0, ErrEmptySlice), and for every other
\* slice no error and an element of the slice that no element is greater
\* than (MaxInt) or less than (MinInt).
C22_MaxMinInt ==
    util.fn \in {"MaxInt", "MinInt"} =>
        LET a == util.args[1]
            r == util.res
        IN  IF a.n = 0 THEN r = Outcome(FALSE, IntV(0), "ErrNilSlice")
            ELSE IF Len(a.f) = 0 THEN r = Outcome(FALSE, IntV(0), "ErrEmptySlice")
            ELSE /\ r = Returned(r.val)
                 /\ r.val \in Elems(a)
                 /\ \A x \in Elems(a) :
                       IF util.fn = "MaxInt" THEN x.n <= r.val.n ELSE x.n >= r.val.n

C22_Witness ==
    /\ util.fn = "MaxInt"
    /\ util.args = <<SliceV("int", <<IntV(1), IntV(2)>>)>>
    /\ util.res = Returned(IntV(2))

\* the index at which x occurs first in the sequence s
FirstIndex(x, s) == CHOOSE i \in 1..Len(s) : s[i] = x /\ \A j \in 1..(i - 1) : s[j] # x

\* C23 (RemoveDuplicates): the call returns a new slice holding every value
\* of a once, in the order of the first occurrences in a; a is unchanged, a
\* nil slice gives nil, and RemoveDuplicates of the result is the result.
C23_RemoveDuplicates ==
    util.fn = "RemoveDuplicates" =>
        LET a == util.args[1]
            r == util.res.val
        IN  /\ util.res = Returned(r)
            /\ Elems(r) = Elems(a)
            /\ \A x \in Elems(r) : Occurrences(x, r.f) = 1
            /\ \A i, j \in 1..Len(r.f) :
                  i < j => FirstIndex(r.f[i], a.f) < FirstIndex(r.f[j], a.f)
            /\ ~util.shared
            /\ util.after = util.args
            /\ a.n = 0 <=> r.n = 0
            /\ RemoveDuplicates(r).val = r

C23_Witness ==
    /\ util.fn = "RemoveDuplicates"
    /\ util.args = <<SliceV("int", <<IntV(2), IntV(1), IntV(2)>>)>>
    /\ util.res = Returned(SliceV("int", <<IntV(2), IntV(1)>>))

\* r holds the elements of s in the opposite order
Mirrored(r, s) ==
    /\ Len(r) = Len(s)
    /\ \A i \in 1..Len(s) : r[i] = s[Len(s) + 1 - i]

\* C24 (Reverse and ReverseCopy): after Reverse(a) the slice a holds its
\* former elements in the opposite order, and a second Reverse restores them;
\* ReverseCopy(a) returns a slice of its own with the elements of a in the
\* opposite order, leaves a unchanged, and returns nil for nil.
C24_Reverse ==
    /\ util.fn = "Reverse" =>
          /\ Mirrored(util.after[1].f, util.args[1].f)
          /\ util.after[1].n = util.args[1].n
          /\ Reverse(util.after[1].f) = util.args[1].f
    /\ util.fn = "ReverseCopy" =>
          /\ util.res = Returned(util.res.val)
          /\ Mirrored(util.res.val.f, util.args[1].f)
          /\ TypeOf(util.res.val) = TypeOf(util.args[1])
          /\ ~util.shared
          /\ util.after = util.args
          /\ util.args[1].n = 0 => util.res.val.n = 0

C24_Witness ==
    /\ util.fn = "ReverseCopy"
    /\ util.args = <<SliceV("int", <<IntV(2), IntV(2), IntV(1)>>)>>
    /\ util.res = Returned(SliceV("int", <<IntV(1), IntV(2), IntV(2)>>))
    /\ util.after = util.args

\* the keys of the map value m
KeysOf(m) == {m.f[i].f[1] : i \in 1..Len(m.f)}

\* the count the map value m holds for its key x
CountOf(m, x) == (CHOOSE e \in Elems(m) : e.f[1] = x).n

\* C25 (FindDifferencesWithCount): the map the call returns holds a value x
\* exactly when x occurs in a and in b a different number of times, and maps
\* it to the number of its occurrences in a less the number in b.
C25_DifferencesWithCount ==
    util.fn = "FindDifferencesWithCount" =>
        LET a == util.args[1]
            b == util.args[2]
            r == util.res.val
        IN  /\ util.res = Returned(r)
            /\ KeysOf(r) = {x \in Elems(a) \cup Elems(b) : Occurrences(x, a.f) # Occurrences(x, b.f)}
            /\ \A x \in KeysOf(r) : CountOf(r, x) = Occurrences(x, a.f) - Occurrences(x, b.f)

\* the goroutines inside a critical section that writes the root cache
RootWriters == {g \in Goroutines : pc[g] = "write"}

\* the goroutines inside a critical section that reads the root cache
RootReaders == {g \in Goroutines : pc[g] = "read"}

\* the goroutines inside a critical section that writes the pkg/sliceutil cache
PkgWriters == {g \in Goroutines : pc[g] \in {"put", "clear"}}

\* the goroutines inside a critical section that reads the pkg/sliceutil cache
PkgReaders == {g \in Goroutines : pc[g] \in {"get", "stats", "keys"}}

\* C26 (readers/writer exclusion): at most one goroutine is inside a section
\* that writes a cache (an insert or a clear), and while one is, no goroutine
\* is inside a section that reads that cache.
C26_Exclusion ==
    /\ Cardinality(RootWriters) <= 1
    /\ RootWriters # {} => RootReaders = {}
    /\ Cardinality(PkgWriters) <= 1
    /\ PkgWriters # {} => PkgReaders = {}

C26_Witness ==
    /\ RootReaders = Goroutines
    /\ rootLock.readers = Goroutines
    /\ rootCache # EmptyCache
    /\ pkgCache # EmptyCache

\* C27 (no lock during comparison work): a goroutine holds the read lock of
\* a cache exactly while it is inside a lookup or the stats, and the write
\* lock exactly while it is inside an insert or a clear, so none while it
\* compares fields, recurses or waits; and under fair scheduling every call
\* that has started comes to its end.
C27_NoLockDuringWork ==
    /\ [](/\ rootLock.readers = RootReaders
          /\ pkgLock.readers = PkgReaders
          /\ \A g \in Goroutines :
                /\ rootLock.writer = g <=> g \in RootWriters
                /\ pkgLock.writer = g <=> g \in PkgWriters)
    /\ \A g \in Goroutines : (~AtRest(g)) ~> AtRest(g)

C27_Witness ==
    /\ pc["g1"] = "fields"
    /\ Len(stack["g1"]) = 2
    /\ "g1" \notin rootLock.readers
    /\ pc["g2"] = "write"
    /\ rootLock.writer = "g2"

\* the calls that the nil check or the type check of CompareStructs ends
EndedByChecks == {c \in LockCalls : c[1] = NilV \/ c[2] = NilV \/ TypeOf(c[1]) # TypeOf(c[2])}

\* C28 (checks precede the cache): a CompareStructs call with a nil operand
\* or with operands of different types returns at once, true only for two
\* nils, without taking a lock and with both caches as they were.
C28_ChecksPrecedeCache ==
    [][\A g \in Goroutines : \A c \in EndedByChecks :
          (RootCall(g, c[1], c[2]) \/ PkgCompareStructs(g, c[1], c[2])) =>
              /\ pc'[g] = "done"
              /\ ret'[g] = (c[1] = NilV /\ c[2] = NilV)
              /\ rootCache' = rootCache /\ rootLock' = rootLock
              /\ pkgCache' = pkgCache /\ pkgLock' = pkgLock]_vars

C28_Witness ==
    /\ pc["g1"] = "done"
    /\ arg["g1"] = <<IntV(1), P11>>
    /\ ~ret["g1"]
    /\ rootCache # EmptyCache
    /\ pc["g2"] = "read"

\* the greatest of a set of naturals, 0 for the empty set
Greatest(S) == IF S = {} THEN 0 ELSE CHOOSE n \in S : \A m \in S : m <= n

RECURSIVE NestingDepth(_)
\* the nesting depth of a value: 1 for a value without parts, else one more
\* than the deepest of its fields, its elements or its pointee
NestingDepth(v) == 1 + Greatest({NestingDepth(v.f[i]) : i \in 1..Len(v.f)})

\* C29 (termination): every CompareStructs call ends by returning a boolean,
\* and its recursion is never deeper than the nesting depth of its operands.
C29_Termination ==
    /\ \A g \in Goroutines :
          /\ pc[g] # "panic"
          /\ Len(stack[g]) <= NestingDepth(arg[g][1])
    /\ out.done => out.val \in BOOLEAN

\* C30 (merges leave their inputs alone): after a merge function has
\* returned, its two slices hold the elements they held before, and the
\* slice it returned shares no storage with them, whatever the capacity of
\* the first slice is.
C30_MergeInputsUnchanged ==
    (/\ util.fn \in MergeNames \cup {"MergeSlices", "MergeSlicesWithStableSort",
                                     "MergeSlicesWithDeduplication"}
     /\ ~util.res.panic) =>
        /\ util.after = util.args
        /\ ~util.shared

====
